---------------------------- MODULE Spec2Model ----------------------------
(***************************************************************************)
(* A model of the simulation-and-learning core of the board-game balance   *)
(* evaluator: GameSimulator.simulate_game (game_simulator.py), the         *)
(* persistence of QLearningPlayer (ai_player.py) and GameBalanceAnalyzer   *)
(* (balance_analyzer.py).                                                  *)
(*                                                                         *)
(* Conventions.                                                            *)
(*  - Rewards are kept in hundredths (0.01 is 1, 0.5 is 50, 100 is 10000), *)
(*    so every reward of the simulator is an integer.                      *)
(*  - Python's None for the winner is NoWinner.                            *)
(*  - A text is the sequence of its pieces between underscores:            *)
(*    "move_left" is <<"move", "left">>, "0_0_1_0_3" is                    *)
(*    <<"0","0","1","0","3">>.  Joining two texts with "_" is \o, and      *)
(*    rsplit("_", 1) cuts before the last piece.                           *)
(*  - Exact fractions are pairs <<numerator, denominator>>.                *)
(***************************************************************************)
EXTENDS Integers, Sequences, FiniteSets, TLC

VARIABLES
    pc,         \* position in simulate_game / the operation last carried out
    \* GameSimulator.simulate_game
    scenario,   \* the input of the run: configuration, agents, training flag
    state,      \* simulate_game's local `state` (the game state dictionary)
    turn,       \* next value of the `for turn in range(max_turns)` iterator
    player,     \* next value of the `for player_id in range(num_players)` iterator
    agents,     \* per player: wins, games_played, total_reward, epsilon
    results,    \* simulation_history: the results appended so far
    acted,      \* history: the players that acted in the current turn, in order
    script,     \* history: whether every choice so far was collect / an advance
    \* QLearningPlayer with its value table, and the model file
    learner,    \* the agent: q_table, wins, games_played, total_reward, epsilon
    file,       \* what is stored at the model file's path
    fresh,      \* a second, newly constructed agent that loads the file
    before,     \* history: the agent as it was before load_model or the probed call
    updates,    \* history: the number of update_q_value calls so far
    probe,      \* a method called directly: its arguments and what it returned
    \* GameBalanceAnalyzer
    batch,      \* the simulation results collected for analysis
    report,     \* the arguments and the return value of the last analyze_game_results
    analysis_history

simVars == <<scenario, state, turn, player, agents, results, acted, script>>

agentVars == <<learner, fresh, file, before, updates, probe>>

analyzerVars == <<batch, report, analysis_history>>

vars == <<pc, simVars, agentVars, analyzerVars>>

(***************************************************************************)
(* Program constants.                                                      *)
(***************************************************************************)
max_turns == 100

NoWinner == -1

WinBonus == 10000

FinishBonus == 10000

TurnCost == 1

Actions ==
    {"move_left", "move_right", "move_up", "move_down", "collect", "attack", "stay"}

IsMove(action) == action \in {"move_left", "move_right", "move_up", "move_down"}

Min(a, b) == IF a < b THEN a ELSE b

Max(a, b) == IF a > b THEN a ELSE b

Abs(a) == IF a < 0 THEN 0 - a ELSE a

(***************************************************************************)
(* Configurations.  DefaultConfig holds the value each game_config.get     *)
(* falls back to; a scenario overrides some of them.  control_percentage   *)
(* is kept in percent (0.6 is 60).                                         *)
(***************************************************************************)
DefaultConfig ==
    [genre |-> "strategy", num_players |-> 2, size |-> 8, length |-> 30,
     pieces_per_player |-> 1, win_type |-> "position_or_elimination",
     goal_given |-> FALSE, goal_position |-> <<0, 0>>,
     target_resources |-> 50, control_percentage |-> 60,
     base_movement |-> 2, dice_modifier |-> FALSE, collection_rate |-> 2]

GoalPosition(cfg) ==
    IF cfg.goal_given THEN cfg.goal_position ELSE <<cfg.size - 1, cfg.size - 1>>

(***************************************************************************)
(* Exact fractions <<n, d>> with d > 0, kept in lowest terms.  Common       *)
(* factors are divided out before multiplying, to keep the products small. *)
(***************************************************************************)
RECURSIVE Gcd(_, _)
Gcd(a, b) == IF b = 0 THEN a ELSE Gcd(b, a % b)

Frac(n, d) ==
    LET g == Gcd(Abs(n), d) IN IF g = 0 THEN <<0, 1>> ELSE <<n \div g, d \div g>>

FracMul(a, b) ==
    LET g1 == Gcd(Abs(a[1]), b[2])
        g2 == Gcd(Abs(b[1]), a[2])
    IN Frac((a[1] \div g1) * (b[1] \div g2), (a[2] \div g2) * (b[2] \div g1))

FracAdd(a, b) ==
    LET g == Gcd(a[2], b[2])
    IN Frac(a[1] * (b[2] \div g) + b[1] * (a[2] \div g), (a[2] \div g) * b[2])

FracSub(a, b) ==
    LET g == Gcd(a[2], b[2])
    IN Frac(a[1] * (b[2] \div g) - b[1] * (a[2] \div g), (a[2] \div g) * b[2])

FracDiv(a, b) ==
    IF b[1] < 0 THEN Frac((0 - a[1]) * b[2], a[2] * (0 - b[1]))
    ELSE Frac(a[1] * b[2], a[2] * b[1])

FracLess(a, b) ==
    LET g == Gcd(a[2], b[2]) IN a[1] * (b[2] \div g) < b[1] * (a[2] \div g)

FracLeq(a, b) ==
    LET g == Gcd(a[2], b[2]) IN a[1] * (b[2] \div g) <= b[1] * (a[2] \div g)

FracMin(a, b) == IF FracLess(b, a) THEN b ELSE a

FracMax(a, b) == IF FracLess(a, b) THEN b ELSE a

(***************************************************************************)
(* QLearningPlayer: construction, bookkeeping and the valid actions.       *)
(***************************************************************************)
\* q_writes stands for the value table in simulate_game: the number of writes
\* update_q_value has made to it
NewAgent ==
    [wins |-> 0, games_played |-> 0, total_reward |-> 0, epsilon |-> <<1, 5>>,
     q_writes |-> 0]

\* record_game_result
RecordGameResult(agent, won) ==
    [agent EXCEPT !.games_played = @ + 1, !.wins = IF won THEN @ + 1 ELSE @]

\* decay_epsilon without the floor
DecayEpsilonByNoFloor(epsilon, decay_rate, min_epsilon) == FracMul(epsilon, decay_rate)

\* decay_epsilon(decay_rate, min_epsilon)
DecayEpsilonBy(epsilon, decay_rate, min_epsilon) ==
    FracMax(min_epsilon, FracMul(epsilon, decay_rate))

\* decay_epsilon() with its default arguments 0.995 and 0.01
DecayEpsilon(agent) ==
    [agent EXCEPT !.epsilon = DecayEpsilonBy(@, <<199, 200>>, <<1, 100>>)]

\* game_state.get('can_collect_resource', False): no code sets the key
CanCollectResource(st) == FALSE

\* game_state.get('can_attack', False): no code sets the key
CanAttack(st) == FALSE

Opt(cond, action) == IF cond THEN <<action>> ELSE <<>>

\* get_valid_actions comparing x with board_size instead of board_size - 1
GetValidActionsOffByOne(cfg, st, p) ==
    LET pos == st.player_positions[p] IN
    IF cfg.genre = "racing"
    THEN Opt(pos < cfg.length - 1, "move_right")
         \o Opt(pos < cfg.length - 1, "move_down")
         \o <<"stay">>
    ELSE Opt(pos[1] > 0, "move_left")
         \o Opt(pos[1] < cfg.size, "move_right")
         \o Opt(pos[2] > 0, "move_up")
         \o Opt(pos[2] < cfg.size - 1, "move_down")
         \o Opt(CanCollectResource(st), "collect")
         \o Opt(CanAttack(st), "attack")
         \o <<"stay">>

\* get_valid_actions: the list, in the order the code appends
GetValidActions(cfg, st, p) ==
    LET pos == st.player_positions[p] IN
    LET actions ==
            IF cfg.genre = "racing"
            THEN Opt(pos < cfg.length - 1, "move_right")
                 \o Opt(pos < cfg.length - 1, "move_down")
                 \o <<"stay">>
            ELSE Opt(pos[1] > 0, "move_left")
                 \o Opt(pos[1] < cfg.size - 1, "move_right")
                 \o Opt(pos[2] > 0, "move_up")
                 \o Opt(pos[2] < cfg.size - 1, "move_down")
                 \o Opt(CanCollectResource(st), "collect")
                 \o Opt(CanAttack(st), "attack")
                 \o <<"stay">>
    IN IF actions # <<>> THEN actions ELSE <<"stay">>

Range(seq) == {seq[i] : i \in DOMAIN seq}

(***************************************************************************)
(* GameSimulator: initial state, executors and the win condition.          *)
(***************************************************************************)
Players(cfg) == 0 .. cfg.num_players - 1

\* _get_starting_position
GetStartingPosition(cfg, p) ==
    LET corners == << <<0, 0>>, <<0, cfg.size - 1>>,
                      <<cfg.size - 1, 0>>, <<cfg.size - 1, cfg.size - 1>> >>
    IN corners[(p % 4) + 1]

\* initialize_game_state
InitializeGameState(cfg) ==
    [turn |-> 0,
     player_positions |->
        [p \in Players(cfg) |->
            IF cfg.pieces_per_player = 1
            THEN IF cfg.genre # "racing" THEN <<0, 0>> ELSE 0
            ELSE GetStartingPosition(cfg, p)],
     player_resources |-> [p \in Players(cfg) |-> 0],
     player_scores |-> [p \in Players(cfg) |-> 0],
     eliminated_players |-> {},
     game_over |-> FALSE,
     winner |-> NoWinner]

\* _move_position without the clamping at the board edges
MovePositionUnclamped(cfg, pos, action) ==
    CASE action = "move_left"  -> <<pos[1] - 1, pos[2]>>
      [] action = "move_right" -> <<pos[1] + 1, pos[2]>>
      [] action = "move_up"    -> <<pos[1], pos[2] - 1>>
      [] action = "move_down"  -> <<pos[1], pos[2] + 1>>
      [] OTHER -> pos

\* _move_position
MovePosition(cfg, pos, action) ==
    CASE action = "move_left"  -> <<Max(0, pos[1] - 1), pos[2]>>
      [] action = "move_right" -> <<Min(cfg.size - 1, pos[1] + 1), pos[2]>>
      [] action = "move_up"    -> <<pos[1], Max(0, pos[2] - 1)>>
      [] action = "move_down"  -> <<pos[1], Min(cfg.size - 1, pos[2] + 1)>>
      [] OTHER -> pos

\* _is_unclaimed_territory; chance is the outcome of random.random() > 0.7
IsUnclaimedTerritory(st, position, chance) ==
    IF \E q \in DOMAIN st.player_positions : st.player_positions[q] = position
    THEN FALSE
    ELSE chance

\* the racing executor advancing one cell whatever base_movement says
ExecuteRacingActionOneCell(cfg, st, p, action, dice) ==
    LET current_pos == st.player_positions[p]
        movement == IF action \in {"move_right", "move_down"} THEN 1 ELSE 0
        new_pos == Min(current_pos + movement, cfg.length - 1)
    IN [state |-> [st EXCEPT !.player_positions[p] = new_pos,
                             !.player_scores[p] = new_pos],
        reward |-> movement * 50
                   + (IF new_pos >= cfg.length - 1 THEN FinishBonus ELSE 0)]

\* _execute_racing_action; dice is the outcome of random.randint(0, 2)
ExecuteRacingAction(cfg, st, p, action, dice) ==
    LET current_pos == st.player_positions[p]
        movement == IF action \in {"move_right", "move_down"}
                    THEN cfg.base_movement + (IF cfg.dice_modifier THEN dice ELSE 0)
                    ELSE 0
        new_pos == Min(current_pos + movement, cfg.length - 1)
    IN [state |-> [st EXCEPT !.player_positions[p] = new_pos,
                             !.player_scores[p] = new_pos],
        reward |-> movement * 50
                   + (IF new_pos >= cfg.length - 1 THEN FinishBonus ELSE 0)]

\* _execute_resource_action without the line that copies resources to score
ExecuteResourceActionNoMirror(cfg, st, p, action) ==
    LET st1 == IF action = "collect"
               THEN [st EXCEPT !.player_resources[p] = @ + cfg.collection_rate]
               ELSE IF IsMove(action)
               THEN [st EXCEPT !.player_positions[p] = MovePosition(cfg, @, action)]
               ELSE st
        reward == IF action = "collect" THEN cfg.collection_rate * 100
                  ELSE IF IsMove(action) THEN 10 ELSE 0
    IN [state |-> st1, reward |-> reward]

\* _execute_resource_action
ExecuteResourceAction(cfg, st, p, action) ==
    LET st1 == IF action = "collect"
               THEN [st EXCEPT !.player_resources[p] = @ + cfg.collection_rate]
               ELSE IF IsMove(action)
               THEN [st EXCEPT !.player_positions[p] = MovePosition(cfg, @, action)]
               ELSE st
        reward == IF action = "collect" THEN cfg.collection_rate * 100
                  ELSE IF IsMove(action) THEN 10 ELSE 0
    IN [state |-> [st1 EXCEPT !.player_scores[p] = st1.player_resources[p]],
        reward |-> reward]

\* _execute_territory_action
ExecuteTerritoryAction(cfg, st, p, action, chance) ==
    IF IsMove(action)
    THEN LET new_pos == MovePosition(cfg, st.player_positions[p], action)
             claimed == IsUnclaimedTerritory(st, new_pos, chance)
         IN [state |-> [st EXCEPT !.player_scores[p] = IF claimed THEN @ + 3 ELSE @,
                                  !.player_positions[p] = new_pos],
             reward |-> IF claimed THEN 500 ELSE 0]
    ELSE [state |-> st, reward |-> 0]

\* _execute_strategy_action
ExecuteStrategyAction(cfg, st, p, action) ==
    IF IsMove(action)
    THEN LET goal_pos == GoalPosition(cfg)
             pos == st.player_positions[p]
             new_pos == MovePosition(cfg, pos, action)
             old_dist == Abs(pos[1] - goal_pos[1]) + Abs(pos[2] - goal_pos[2])
             new_dist == Abs(new_pos[1] - goal_pos[1]) + Abs(new_pos[2] - goal_pos[2])
         IN [state |-> [st EXCEPT !.player_positions[p] = new_pos,
                                  !.player_scores[p] = @ + 1],
             reward |-> IF new_dist < old_dist THEN 100
                        ELSE IF new_dist > old_dist THEN 0 - 50 ELSE 0]
    ELSE [state |-> st, reward |-> 0]

(***************************************************************************)
(* _execute_action.  next_state is state.copy(), a shallow copy: the       *)
(* per-player dictionaries are shared with the state passed in, so the     *)
(* executor's writes show in both.  `state` is the passed-in object after  *)
(* the call; the executors write no top-level key, so it equals next_state.*)
(***************************************************************************)
ExecuteAction(cfg, st, p, action, dice, chance) ==
    LET r == CASE cfg.genre = "racing" -> ExecuteRacingAction(cfg, st, p, action, dice)
               [] cfg.genre = "resource_management" ->
                      ExecuteResourceAction(cfg, st, p, action)
               [] cfg.genre = "territory_control" ->
                      ExecuteTerritoryAction(cfg, st, p, action, chance)
               [] OTHER -> ExecuteStrategyAction(cfg, st, p, action)
    IN [next_state |-> r.state,
        state |-> [st EXCEPT !.player_positions = r.state.player_positions,
                             !.player_resources = r.state.player_resources,
                             !.player_scores = r.state.player_scores],
        reward |-> r.reward - TurnCost,
        done |-> FALSE]

(***************************************************************************)
(* _check_win_condition.  The final else takes every type that is none of  *)
(* the first three.  In racing the position is a number, which Python's == *)
(* never finds equal to the goal coordinate.                               *)
(***************************************************************************)
CheckWinCondition(cfg, st, p) ==
    CASE cfg.win_type = "race_finish" ->
             st.player_positions[p] >= cfg.length - 1
      [] cfg.win_type = "resource_collection" ->
             st.player_resources[p] >= cfg.target_resources
      [] cfg.win_type = "territory_control" ->
             st.player_scores[p] >= cfg.control_percentage
      [] OTHER ->
             IF cfg.genre = "racing" /\ cfg.pieces_per_player = 1
             THEN FALSE
             ELSE st.player_positions[p] = GoalPosition(cfg)

(***************************************************************************)
(* QLearningPlayer with its value table.  q_table is a Python dict, which  *)
(* keeps insertion order: a sequence of entries with distinct              *)
(* (state, action).  state and action are texts; values and rewards are in *)
(* hundredths.                                                             *)
(***************************************************************************)
NewLearner(id) ==
    [player_id |-> id, learning_rate |-> <<1, 10>>, discount_factor |-> <<9, 10>>,
     epsilon |-> <<1, 5>>, q_table |-> <<>>,
     wins |-> 0, games_played |-> 0, total_reward |-> 0]

\* an action name as a text
ActionText(action) ==
    CASE action = "move_left"  -> <<"move", "left">>
      [] action = "move_right" -> <<"move", "right">>
      [] action = "move_up"    -> <<"move", "up">>
      [] action = "move_down"  -> <<"move", "down">>
      [] OTHER -> <<action>>

\* get_state_key: position, opponent count, resources, turn % 10
GetStateKey(cfg, st, p) ==
    LET pos == st.player_positions[p]
        pos_str == IF cfg.genre = "racing" /\ cfg.pieces_per_player = 1
                   THEN <<ToString(pos)>>
                   ELSE <<ToString(pos[1]), ToString(pos[2])>>
        opponent_count == Cardinality({q \in DOMAIN st.player_positions : q # p})
    IN pos_str \o <<ToString(opponent_count), ToString(st.player_resources[p]),
                    ToString(st.turn % 10)>>

\* the place of (state, action) in the table, 0 when absent
IndexOf(q_table, state_key, action) ==
    LET hits == {i \in DOMAIN q_table :
                    q_table[i].state = state_key /\ q_table[i].action = action}
    IN IF hits = {} THEN 0 ELSE CHOOSE i \in hits : TRUE

\* get_q_value
GetQValue(q_table, state_key, action) ==
    LET i == IndexOf(q_table, state_key, action)
    IN IF i = 0 THEN <<0, 1>> ELSE q_table[i].value

\* self.q_table[(state, action)] = value
SetQValue(q_table, state_key, action, value) ==
    LET i == IndexOf(q_table, state_key, action)
    IN IF i = 0
       THEN Append(q_table, [state |-> state_key, action |-> action, value |-> value])
       ELSE [q_table EXCEPT ![i].value = value]

RECURSIVE FracMaxOf(_, _)
\* max(values, default=...)
FracMaxOf(values, default) ==
    IF values = <<>> THEN default
    ELSE IF Len(values) = 1 THEN values[1]
    ELSE FracMax(values[1], FracMaxOf(Tail(values), default))

\* update_q_value adding the discounted next value on a terminal transition too
UpdateQValueBootstrapsAlways(agent, cfg, st, action, reward, next_st, done) ==
    LET state_key == GetStateKey(cfg, st, agent.player_id)
        current_q == GetQValue(agent.q_table, state_key, ActionText(action))
        next_state_key == GetStateKey(cfg, next_st, agent.player_id)
        valid_next_actions == GetValidActions(cfg, next_st, agent.player_id)
        max_next_q ==
            FracMaxOf([i \in DOMAIN valid_next_actions |->
                          GetQValue(agent.q_table, next_state_key,
                                    ActionText(valid_next_actions[i]))],
                      <<0, 1>>)
        target_q == FracAdd(<<reward, 1>>, FracMul(agent.discount_factor, max_next_q))
        new_q == FracAdd(current_q,
                         FracMul(agent.learning_rate, FracSub(target_q, current_q)))
    IN [agent EXCEPT !.q_table = SetQValue(@, state_key, ActionText(action), new_q),
                     !.total_reward = @ + reward]

\* update_q_value
UpdateQValue(agent, cfg, st, action, reward, next_st, done) ==
    LET state_key == GetStateKey(cfg, st, agent.player_id)
        current_q == GetQValue(agent.q_table, state_key, ActionText(action))
        next_state_key == GetStateKey(cfg, next_st, agent.player_id)
        valid_next_actions == GetValidActions(cfg, next_st, agent.player_id)
        max_next_q ==
            FracMaxOf([i \in DOMAIN valid_next_actions |->
                          GetQValue(agent.q_table, next_state_key,
                                    ActionText(valid_next_actions[i]))],
                      <<0, 1>>)
        target_q == IF done THEN <<reward, 1>>
                    ELSE FracAdd(<<reward, 1>>, FracMul(agent.discount_factor, max_next_q))
        new_q == FracAdd(current_q,
                         FracMul(agent.learning_rate, FracSub(target_q, current_q)))
    IN [agent EXCEPT !.q_table = SetQValue(@, state_key, ActionText(action), new_q),
                     !.total_reward = @ + reward]

(***************************************************************************)
(* save_model and load_model.  What is stored at the path is no file, text *)
(* that is no JSON, or a JSON object with an optional q_table (an ordered  *)
(* mapping from key text to value) and optional stats.  Of the stats that  *)
(* get_stats writes, those load_model reads are kept.                      *)
(***************************************************************************)
NoStats == [f \in {} |-> 0]

MissingFile ==
    [kind |-> "missing", has_q_table |-> FALSE, q_table |-> <<>>,
     has_stats |-> FALSE, stats |-> NoStats]

InvalidJson == [MissingFile EXCEPT !.kind = "invalid_json"]

\* d[key] = value on an ordered mapping
PutItem(items, key, value) ==
    LET hits == {i \in DOMAIN items : items[i].key = key}
    IN IF hits = {} THEN Append(items, [key |-> key, value |-> value])
       ELSE [items EXCEPT ![CHOOSE i \in hits : TRUE].value = value]

RECURSIVE DumpTable(_, _)
\* {f"{k[0]}_{k[1]}": v for k, v in self.q_table.items()}, from entry i on
DumpTable(q_table, items) ==
    IF q_table = <<>> THEN items
    ELSE DumpTable(Tail(q_table),
                   PutItem(items, Head(q_table).state \o Head(q_table).action,
                           Head(q_table).value))

\* save_model: the content written
SaveModel(agent) ==
    [kind |-> "json", has_q_table |-> TRUE, q_table |-> DumpTable(agent.q_table, <<>>),
     has_stats |-> TRUE,
     stats |-> [f \in {"wins", "games_played", "total_reward"} |->
                   CASE f = "wins" -> agent.wins
                     [] f = "games_played" -> agent.games_played
                     [] OTHER -> agent.total_reward]]

\* stats.get(name, default)
StatsGet(stats, name, default) == IF name \in DOMAIN stats THEN stats[name] ELSE default

RECURSIVE LoadItems(_, _)
\* the loop over model_data['q_table'].items(): key.rsplit('_', 1) unpacked
\* into state and action; a key without underscore raises, which ends the loop
LoadItems(items, q_table) ==
    IF items = <<>> THEN [q_table |-> q_table, raised |-> FALSE]
    ELSE LET key == Head(items).key
         IN IF Len(key) < 2
            THEN [q_table |-> q_table, raised |-> TRUE]
            ELSE LoadItems(Tail(items),
                           SetQValue(q_table, SubSeq(key, 1, Len(key) - 1),
                                     <<key[Len(key)]>>, Head(items).value))

\* load_model: the agent after the call.  Every exception is caught and printed.
LoadModel(agent, f) ==
    IF f.kind # "json"
    THEN agent                                   \* open / json.load raised
    ELSE LET cleared == [agent EXCEPT !.q_table = <<>>]
         IN IF ~f.has_q_table
            THEN cleared                         \* model_data['q_table'] raised
            ELSE LET r == LoadItems(f.q_table, <<>>)
                     filled == [cleared EXCEPT !.q_table = r.q_table]
                 IN IF r.raised \/ ~f.has_stats
                    THEN filled
                    ELSE [filled EXCEPT
                            !.wins = StatsGet(f.stats, "wins", 0),
                            !.games_played = StatsGet(f.stats, "games_played", 0),
                            !.total_reward = StatsGet(f.stats, "total_reward", 0)]

(***************************************************************************)
(* GameBalanceAnalyzer.  A result is read for its winner and its turns.    *)
(* Percentages and scores are exact fractions.  game_length_std and        *)
(* complexity_score take a square root and are not part of the report      *)
(* modelled here; no other field depends on them.                          *)
(***************************************************************************)
RECURSIVE FracSum(_, _)
\* the sum of f over the ids in S
FracSum(f, S) ==
    IF S = {} THEN <<0, 1>>
    ELSE LET x == CHOOSE y \in S : TRUE IN FracAdd(f[x], FracSum(f, S \ {x}))

\* _empty_analysis
EmptyAnalysis ==
    [total_games |-> 0,
     win_distribution |-> [i \in {} |-> <<0, 1>>],
     fairness_score |-> <<0, 1>>,
     average_game_length |-> <<0, 1>>,
     engagement_score |-> <<0, 1>>,
     balance_grade |-> "N/A"]

\* [r['winner'] for r in simulation_results if r['winner'] is not None]
Winners(simulation_results) ==
    SelectSeq([i \in DOMAIN simulation_results |-> simulation_results[i].winner],
              LAMBDA w : w # NoWinner)

\* _calculate_win_distribution with percentages cut to whole numbers
CalculateWinDistributionWhole(winners, num_players) ==
    IF winners = <<>>
    THEN [i \in 0 .. num_players - 1 |-> <<0, 1>>]
    ELSE [i \in 0 .. num_players - 1 |->
            Frac((Cardinality({k \in DOMAIN winners : winners[k] = i}) * 100)
                     \div Len(winners), 1)]

\* _calculate_win_distribution
CalculateWinDistribution(winners, num_players) ==
    IF winners = <<>>
    THEN [i \in 0 .. num_players - 1 |-> <<0, 1>>]
    ELSE [i \in 0 .. num_players - 1 |->
            Frac(Cardinality({k \in DOMAIN winners : winners[k] = i}) * 100,
                 Len(winners))]

\* np.var: the mean squared deviation from the mean
Variance(f) ==
    LET n == Cardinality(DOMAIN f)
        mean == FracDiv(FracSum(f, DOMAIN f), <<n, 1>>)
        sq == [i \in DOMAIN f |-> FracMul(FracSub(f[i], mean), FracSub(f[i], mean))]
    IN FracDiv(FracSum(sq, DOMAIN f), <<n, 1>>)

\* max_variance = ideal_percentage ** 2 with ideal_percentage = 100.0 / num_players
MaxVariance(num_players) ==
    LET ideal_percentage == Frac(100, num_players)
    IN FracMul(ideal_percentage, ideal_percentage)

\* _calculate_fairness_score returning the variance ratio itself
CalculateFairnessScoreInverted(winners, num_players) ==
    IF winners = <<>> THEN <<0, 1>>
    ELSE LET win_dist == CalculateWinDistribution(winners, num_players)
             variance == Variance(win_dist)
             max_variance == MaxVariance(num_players)
         IN FracMul(<<100, 1>>, FracMin(FracDiv(variance, max_variance), <<1, 1>>))

\* _calculate_fairness_score
CalculateFairnessScore(winners, num_players) ==
    IF winners = <<>> THEN <<0, 1>>
    ELSE LET win_dist == CalculateWinDistribution(winners, num_players)
             variance == Variance(win_dist)
             max_variance == MaxVariance(num_players)
         IN FracMul(<<100, 1>>,
                    FracSub(<<1, 1>>, FracMin(FracDiv(variance, max_variance), <<1, 1>>)))

\* np.mean of the turns
MeanTurns(simulation_results) ==
    FracDiv(FracSum([i \in DOMAIN simulation_results |->
                        <<simulation_results[i].turns, 1>>],
                    DOMAIN simulation_results),
            <<Len(simulation_results), 1>>)

\* _calculate_engagement
CalculateEngagement(simulation_results) ==
    IF simulation_results = <<>> THEN <<0, 1>>
    ELSE LET avg_turns == MeanTurns(simulation_results)
             length_engagement ==
                 IF FracLeq(<<20, 1>>, avg_turns) /\ FracLeq(avg_turns, <<40, 1>>)
                 THEN <<100, 1>>
                 ELSE IF FracLess(avg_turns, <<20, 1>>)
                 THEN FracMul(FracDiv(avg_turns, <<20, 1>>), <<100, 1>>)
                 ELSE FracMax(<<0, 1>>,
                              FracSub(<<100, 1>>,
                                      FracMul(FracSub(avg_turns, <<40, 1>>), <<2, 1>>)))
         IN FracDiv(FracAdd(length_engagement, <<50, 1>>), <<2, 1>>)

\* _calculate_balance_grade
CalculateBalanceGrade(fairness) ==
    IF FracLeq(<<90, 1>>, fairness) THEN "A (Excellent)"
    ELSE IF FracLeq(<<75, 1>>, fairness) THEN "B (Good)"
    ELSE IF FracLeq(<<60, 1>>, fairness) THEN "C (Fair)"
    ELSE IF FracLeq(<<45, 1>>, fairness) THEN "D (Poor)"
    ELSE "F (Unbalanced)"

\* analyze_game_results: the report returned
AnalyzeGameResults(simulation_results, num_players) ==
    IF simulation_results = <<>> THEN EmptyAnalysis
    ELSE LET winners == Winners(simulation_results)
             fairness == CalculateFairnessScore(winners, num_players)
         IN [total_games |-> Len(simulation_results),
             win_distribution |-> CalculateWinDistribution(winners, num_players),
             fairness_score |-> fairness,
             average_game_length |-> MeanTurns(simulation_results),
             engagement_score |-> CalculateEngagement(simulation_results),
             balance_grade |-> CalculateBalanceGrade(fairness)]

(***************************************************************************)
(* The runs explored.  A scenario is a configuration, the agents playing   *)
(* it and simulate_game's training flag.  Agents "qlearning" are           *)
(* QLearningPlayer objects, whose choose_action returns a member of        *)
(* get_valid_actions; agents "scripted" are caller-supplied players that   *)
(* return any action of the scenario's `actions`.  Every configuration     *)
(* pairs a genre with a win type whose check is defined on that genre's    *)
(* positions.                                                              *)
(***************************************************************************)
RacingConfig ==
    [DefaultConfig EXCEPT !.genre = "racing", !.win_type = "race_finish"]

ResourceConfig ==
    [DefaultConfig EXCEPT !.genre = "resource_management", !.size = 2,
                          !.pieces_per_player = 2, !.win_type = "resource_collection",
                          !.target_resources = 30, !.collection_rate = 3]

\* scenarios in which a game can run to the turn ceiling
CeilingScenarios ==
    { \* racing on a short track with the dice modifier
      [cfg |-> [RacingConfig EXCEPT !.length = 6, !.dice_modifier = TRUE],
       agent |-> "qlearning", actions |-> {}, training |-> FALSE],
      \* racing with a win type the simulator does not know
      [cfg |-> [RacingConfig EXCEPT !.length = 4, !.win_type = "most_points"],
       agent |-> "qlearning", actions |-> {}, training |-> FALSE],
      \* resource management with a win type the simulator does not know
      [cfg |-> [ResourceConfig EXCEPT !.win_type = "most_points"],
       agent |-> "qlearning", actions |-> {}, training |-> FALSE] }

Scenarios ==
    CeilingScenarios \cup
    { \* racing, track length 30, base movement 2, no dice modifier, one player
      [cfg |-> [RacingConfig EXCEPT !.num_players = 1],
       agent |-> "qlearning", actions |-> {}, training |-> TRUE],
      \* the same with two players that always advance
      [cfg |-> RacingConfig,
       agent |-> "scripted", actions |-> {"move_right", "move_down"}, training |-> TRUE],
      \* resource management, target 30, collection rate 3, one player, any action
      [cfg |-> [ResourceConfig EXCEPT !.num_players = 1],
       agent |-> "scripted", actions |-> Actions, training |-> FALSE],
      \* the same with two players that always collect
      [cfg |-> ResourceConfig,
       agent |-> "scripted", actions |-> {"collect"}, training |-> TRUE],
      \* the same with a configuration that omits pieces_per_player, target 6
      [cfg |-> [ResourceConfig EXCEPT !.pieces_per_player = DefaultConfig.pieces_per_player,
                                      !.target_resources = 6],
       agent |-> "scripted", actions |-> {"collect"}, training |-> FALSE],
      \* resource management played by QLearningPlayer agents
      [cfg |-> [ResourceConfig EXCEPT !.target_resources = 6],
       agent |-> "qlearning", actions |-> {}, training |-> FALSE],
      \* strategy as the generator configures it, four players that stay
      [cfg |-> [DefaultConfig EXCEPT !.num_players = 4, !.size = 5,
                                     !.pieces_per_player = 3],
       agent |-> "scripted", actions |-> {"stay"}, training |-> FALSE],
      \* strategy on a 2 x 2 board, one player
      [cfg |-> [DefaultConfig EXCEPT !.num_players = 1, !.size = 2,
                                     !.pieces_per_player = 3],
       agent |-> "qlearning", actions |-> {}, training |-> FALSE],
      \* territory control on a 2 x 2 board, 6 percent to win
      [cfg |-> [DefaultConfig EXCEPT !.genre = "territory_control", !.size = 2,
                                     !.pieces_per_player = 5,
                                     !.win_type = "territory_control",
                                     !.control_percentage = 6],
       agent |-> "qlearning", actions |-> {}, training |-> FALSE] }

\* random.randint(0, 2), drawn only by the racing executor under dice_modifier
DiceOutcomes(cfg) ==
    IF cfg.genre = "racing" /\ cfg.dice_modifier THEN 0 .. 2 ELSE {0}

\* random.random() > 0.7, drawn only by the territory executor
ChanceOutcomes(cfg) ==
    IF cfg.genre = "territory_control" THEN BOOLEAN ELSE {FALSE}

\* choose_action: the actions the acting agent may return
ChooseAction(sc, st, p) ==
    IF sc.agent = "qlearning" THEN Range(GetValidActions(sc.cfg, st, p)) ELSE sc.actions

\* a 1-based winner id
DeclareWinnerOneBased(st, p) == [st EXCEPT !.game_over = TRUE, !.winner = p + 1]

\* next_state['game_over'] = True; next_state['winner'] = player_id
DeclareWinner(st, p) == [st EXCEPT !.game_over = TRUE, !.winner = p]

\* update_q_value as simulate_game's agents show it: one write to the table
\* and total_reward += reward
AddReward(agent, reward) ==
    [agent EXCEPT !.total_reward = @ + reward, !.q_writes = @ + 1]

\* the agent updated whether training or not
LearnFromAlways(agent, training, reward) == AddReward(agent, reward)

\* if training: ai_player.update_q_value(state, action, reward, next_state, done)
LearnFrom(agent, training, reward) ==
    IF training THEN AddReward(agent, reward) ELSE agent

(***************************************************************************)
(* simulate_game                                                           *)
(***************************************************************************)
\* no method is called directly
NoProbe == [op |-> "none"]

\* the agent with its table and the analyzer before anything is done with them
AgentIdle ==
    /\ learner = NewLearner(0)
    /\ fresh = NewLearner(0)
    /\ file = MissingFile
    /\ before = NewLearner(0)
    /\ updates = 0
    /\ probe = NoProbe

AnalyzerIdle ==
    /\ batch = <<>>
    /\ report = [num_players |-> 0, analysis |-> EmptyAnalysis]
    /\ analysis_history = <<>>

\* no game is being simulated
SimIdle ==
    /\ scenario = [cfg |-> DefaultConfig, agent |-> "qlearning", actions |-> {},
                   training |-> FALSE]
    /\ state = InitializeGameState(DefaultConfig)
    /\ turn = 0
    /\ player = 0
    /\ agents = [p \in Players(DefaultConfig) |-> NewAgent]
    /\ results = <<>>
    /\ acted = <<>>
    /\ script = [collect |-> TRUE, advance |-> TRUE]

\* simulate_game is entered with a scenario of S
SimInit(S) ==
    /\ AgentIdle
    /\ AnalyzerIdle
    /\ scenario \in S
    /\ pc = "turn_loop"
    /\ state = InitializeGameState(scenario.cfg)
    /\ turn = 0
    /\ player = 0
    /\ agents = [p \in Players(scenario.cfg) |-> NewAgent]
    /\ results = <<>>
    /\ acted = <<>>
    /\ script = [collect |-> TRUE, advance |-> TRUE]

Init == SimInit(Scenarios)

\* a turn loop whose iterator never advances towards the ceiling
TurnLoopNoCeiling ==
    /\ pc = "turn_loop"
    /\ turn < max_turns
    /\ state' = [state EXCEPT !.turn = turn]
    /\ turn' = turn
    /\ player' = 0
    /\ pc' = IF scenario.cfg.num_players > 0 THEN "player_loop" ELSE "turn_loop"
    /\ acted' = <<>>
    /\ UNCHANGED <<scenario, agents, results, script, agentVars, analyzerVars>>

\* for turn in range(max_turns): state['turn'] = turn
TurnLoop ==
    /\ pc = "turn_loop"
    /\ turn < max_turns
    /\ state' = [state EXCEPT !.turn = turn]
    /\ turn' = turn + 1
    /\ player' = 0
    /\ pc' = IF scenario.cfg.num_players > 0 THEN "player_loop" ELSE "turn_loop"
    /\ acted' = <<>>
    /\ UNCHANGED <<scenario, agents, results, script, agentVars, analyzerVars>>

\* the range is exhausted: fall out of the turn loop
TurnLoopEnd ==
    /\ pc = "turn_loop"
    /\ turn = max_turns
    /\ pc' = "record"
    /\ UNCHANGED <<simVars, agentVars, analyzerVars>>

\* the player loop without its break on game_over
AfterPlayerNoBreak(st) ==
    IF player + 1 < scenario.cfg.num_players THEN "player_loop" ELSE "turn_loop"

\* where control goes after the body of the player loop, given the new state
AfterPlayer(st) ==
    IF st.game_over THEN "record"
    ELSE IF player + 1 < scenario.cfg.num_players THEN "player_loop"
    ELSE "turn_loop"

\* the loop body checking the win condition on the state before the action
StepOutcomeChecksOldState(cfg, st, p, action, dice, chance) ==
    LET ex == ExecuteAction(cfg, st, p, action, dice, chance)
        won == CheckWinCondition(cfg, st, p)
    IN [state |-> ex.state,
        next_state |-> IF won THEN DeclareWinner(ex.next_state, p) ELSE ex.next_state,
        reward |-> ex.reward + (IF won THEN WinBonus ELSE 0),
        done |-> ex.done \/ won]

\* the loop body leaving `done` as the executor returned it
StepOutcomeNotDone(cfg, st, p, action, dice, chance) ==
    LET ex == ExecuteAction(cfg, st, p, action, dice, chance)
        won == CheckWinCondition(cfg, ex.next_state, p)
    IN [state |-> ex.state,
        next_state |-> IF won THEN DeclareWinner(ex.next_state, p) ELSE ex.next_state,
        reward |-> ex.reward + (IF won THEN WinBonus ELSE 0),
        done |-> ex.done]

\* lines 100-110 of the loop body for one chosen action: the executor, the
\* win check and the bonus.  `state` is what update_q_value receives as state.
StepOutcome(cfg, st, p, action, dice, chance) ==
    LET ex == ExecuteAction(cfg, st, p, action, dice, chance)
        won == CheckWinCondition(cfg, ex.next_state, p)
    IN [state |-> ex.state,
        next_state |-> IF won THEN DeclareWinner(ex.next_state, p) ELSE ex.next_state,
        reward |-> ex.reward + (IF won THEN WinBonus ELSE 0),
        done |-> ex.done \/ won]

\* one iteration of `for player_id in range(num_players)`
PlayerStep ==
    /\ pc = "player_loop"
    /\ player < scenario.cfg.num_players
    /\ IF player \in state.eliminated_players
       THEN /\ pc' = AfterPlayer(state)
            /\ UNCHANGED <<state, agents, acted, script>>
       ELSE \E action \in ChooseAction(scenario, state, player),
               dice \in DiceOutcomes(scenario.cfg),
               chance \in ChanceOutcomes(scenario.cfg) :
               LET o == StepOutcome(scenario.cfg, state, player, action, dice, chance)
               IN /\ agents' = [agents EXCEPT
                                 ![player] = LearnFrom(@, scenario.training, o.reward)]
                  /\ state' = o.next_state
                  /\ pc' = AfterPlayer(o.next_state)
                  /\ acted' = Append(acted, player)
                  /\ script' = [collect |-> script.collect /\ action = "collect",
                                advance |-> script.advance
                                            /\ action \in {"move_right", "move_down"}]
    /\ player' = player + 1
    /\ UNCHANGED <<scenario, turn, results, agentVars, analyzerVars>>

\* record results, build the result and append it to simulation_history
RecordResults ==
    /\ pc = "record"
    /\ agents' = [p \in DOMAIN agents |->
                    LET a == RecordGameResult(agents[p], state.winner = p)
                    IN IF scenario.training THEN DecayEpsilon(a) ELSE a]
    /\ results' = Append(results, [winner |-> state.winner,
                                   turns |-> state.turn,
                                   final_scores |-> state.player_scores,
                                   final_resources |-> state.player_resources])
    /\ pc' = "done"
    /\ UNCHANGED <<scenario, state, turn, player, acted, script, agentVars, analyzerVars>>

Next == TurnLoop \/ TurnLoopEnd \/ PlayerStep \/ RecordResults

Spec == Init /\ [][Next]_vars

\* simulate_game is sequential code: a step that can be taken is taken
LiveSpec == SimInit(CeilingScenarios) /\ [][Next]_vars /\ WF_vars(Next)

(***************************************************************************)
(* The agent specification: an agent is trained, its model is saved or a   *)
(* malformed source is put at the path, and the agent or a new agent loads *)
(* it.                                                                     *)
(***************************************************************************)
MaxUpdates == 2

MaxGames == 1

\* the game the agent learns: strategy on a 2 x 2 board, two players
LearnerConfig == [DefaultConfig EXCEPT !.size = 2, !.pieces_per_player = 3]

\* game states the agent (player 0) is updated from
SampleStates ==
    {[InitializeGameState(LearnerConfig) EXCEPT !.turn = t, !.player_positions[0] = pos] :
        t \in {0, 1}, pos \in {<<0, 0>>, <<1, 0>>}}

\* sources load_model cannot read as a model
MalformedSources ==
    { MissingFile,
      InvalidJson,
      \* a JSON object without q_table
      [kind |-> "json", has_q_table |-> FALSE, q_table |-> <<>>,
       has_stats |-> TRUE, stats |-> [f \in {"wins"} |-> 7]],
      \* a q_table whose second key holds no underscore
      [kind |-> "json", has_q_table |-> TRUE,
       q_table |-> << [key |-> <<"1", "1", "1", "0", "5", "stay">>, value |-> <<3, 1>>],
                      [key |-> <<"stay">>, value |-> <<4, 1>>] >>,
       has_stats |-> TRUE, stats |-> [f \in {"wins"} |-> 7]] }

Malformed(f) ==
    \/ f.kind # "json"
    \/ ~f.has_q_table
    \/ \E i \in DOMAIN f.q_table : Len(f.q_table[i].key) < 2

AgentInit ==
    /\ AnalyzerIdle
    /\ SimIdle
    /\ AgentIdle
    /\ pc = "train"

\* one training step of simulate_game on the agent: update_q_value
Learn ==
    /\ pc = "train"
    /\ updates < MaxUpdates
    /\ \E st \in SampleStates :
        \E action \in Range(GetValidActions(LearnerConfig, st, learner.player_id)) :
            LET o == StepOutcome(LearnerConfig, st, learner.player_id, action, 0, FALSE)
            IN learner' = UpdateQValue(learner, LearnerConfig, o.state, action,
                                       o.reward, o.next_state, o.done)
    /\ updates' = updates + 1
    /\ UNCHANGED <<pc, fresh, file, before, probe, simVars, analyzerVars>>

\* record_game_result
RecordGame ==
    /\ pc = "train"
    /\ learner.games_played < MaxGames
    /\ \E won \in BOOLEAN : learner' = RecordGameResult(learner, won)
    /\ UNCHANGED <<pc, fresh, file, before, updates, probe, simVars, analyzerVars>>

\* save_model
Save ==
    /\ pc = "train"
    /\ file' = SaveModel(learner)
    /\ pc' = "saved"
    /\ UNCHANGED <<learner, fresh, before, updates, probe, simVars, analyzerVars>>

\* the path holds a source that is no model
PutMalformed ==
    /\ pc = "train"
    /\ file' \in MalformedSources
    /\ pc' = "saved"
    /\ UNCHANGED <<learner, fresh, before, updates, probe, simVars, analyzerVars>>

\* load_model on the trained agent
Load ==
    /\ pc = "saved"
    /\ before' = learner
    /\ learner' = LoadModel(learner, file)
    /\ pc' = "loaded"
    /\ UNCHANGED <<fresh, file, updates, probe, simVars, analyzerVars>>

\* load_model on a new agent
LoadFresh ==
    /\ pc = "saved"
    /\ before' = fresh
    /\ fresh' = LoadModel(fresh, file)
    /\ pc' = "loaded_fresh"
    /\ UNCHANGED <<learner, file, updates, probe, simVars, analyzerVars>>

AgentNext == Learn \/ RecordGame \/ Save \/ PutMalformed \/ Load \/ LoadFresh

AgentSpec == AgentInit /\ [][AgentNext]_vars

(***************************************************************************)
(* The analyzer specification: results are collected and then analyzed.    *)
(***************************************************************************)
MaxBatch == 3

MaxPlayers == 3

\* turn counts of the collected results
TurnSamples == {9, 30, 99}

AnalyzerInit ==
    /\ AgentIdle
    /\ AnalyzerIdle
    /\ \E n \in 1 .. MaxPlayers :
          /\ scenario = [cfg |-> [DefaultConfig EXCEPT !.num_players = n],
                         agent |-> "qlearning", actions |-> {}, training |-> TRUE]
          /\ agents = [p \in 0 .. n - 1 |-> NewAgent]
    /\ state = InitializeGameState(scenario.cfg)
    /\ turn = 0
    /\ player = 0
    /\ results = <<>>
    /\ acted = <<>>
    /\ script = [collect |-> TRUE, advance |-> TRUE]
    /\ pc = "collect"

\* simulation_results.append(result): a finished game's result joins the batch
AddResult ==
    /\ pc = "collect"
    /\ Len(batch) < MaxBatch
    /\ \E w \in {NoWinner} \cup Players(scenario.cfg), t \in TurnSamples :
          batch' = Append(batch, [winner |-> w, turns |-> t])
    /\ UNCHANGED <<pc, report, analysis_history, simVars, agentVars>>

\* analyze_game_results(simulation_results, num_players)
Analyze ==
    /\ pc = "collect"
    /\ LET analysis == AnalyzeGameResults(batch, scenario.cfg.num_players)
       IN /\ report' = [num_players |-> scenario.cfg.num_players, analysis |-> analysis]
          /\ analysis_history' = IF batch = <<>> THEN analysis_history
                                 ELSE Append(analysis_history, analysis)
    /\ pc' = "analyzed"
    /\ UNCHANGED <<batch, simVars, agentVars>>

AnalyzerNext == AddResult \/ Analyze

AnalyzerSpec == AnalyzerInit /\ [][AnalyzerNext]_vars

(***************************************************************************)
(* The call specification: one method is called directly on arguments      *)
(* drawn from sample sets.  probe holds the call: its arguments from the   *)
(* start, what it returned once pc is "returned".                          *)
(***************************************************************************)
TerritoryConfig ==
    [DefaultConfig EXCEPT !.genre = "territory_control", !.size = 2,
                          !.pieces_per_player = 5, !.win_type = "territory_control",
                          !.control_percentage = 6]

\* one configuration per genre
ProbeConfigs ==
    {[RacingConfig EXCEPT !.length = 6, !.dice_modifier = TRUE],
     ResourceConfig, TerritoryConfig, LearnerConfig}

\* game states of cfg in which player 0 stands at the start or one step on
ProbeStates(cfg) ==
    {[InitializeGameState(cfg) EXCEPT !.turn = t, !.player_positions[0] = pos] :
        t \in {0, 1},
        pos \in IF cfg.genre = "racing" THEN {0, cfg.length - 2}
                ELSE {<<0, 0>>, <<1, 0>>}}

\* what a state object holds for player p
Held(st, p) ==
    [position |-> st.player_positions[p], resources |-> st.player_resources[p],
     score |-> st.player_scores[p]]

\* the calls _execute_action(state, player_id, action) explored for cfg
ExecuteCalls(cfg) ==
    {[op |-> "execute", cfg |-> cfg, state |-> st, player |-> p,
      action |-> action, dice |-> dice, chance |-> chance,
      state_after |-> st, next_state |-> st, reward |-> 0] :
        st \in ProbeStates(cfg), p \in Players(cfg), action \in Actions,
        dice \in DiceOutcomes(cfg), chance \in ChanceOutcomes(cfg)}

MaxBoard == 3

MaxDecays == 2

\* grid configurations with boards of 1 x 1 up to MaxBoard x MaxBoard
BoardConfigs ==
    {[cfg EXCEPT !.size = n] : cfg \in {LearnerConfig, ResourceConfig}, n \in 1 .. MaxBoard}

\* the states of cfg with player 0 on any cell of the board
GridStates(cfg) ==
    {[InitializeGameState(cfg) EXCEPT !.player_positions[0] = <<x, y>>] :
        x \in 0 .. cfg.size - 1, y \in 0 .. cfg.size - 1}

\* the calls get_valid_actions(game_state) explored
ValidCalls ==
    UNION {{[op |-> "get_valid_actions", cfg |-> cfg, state |-> st, actions |-> <<>>] :
               st \in GridStates(cfg)} : cfg \in BoardConfigs}

\* a state of SampleStates: player 0 at pos in turn t
SampleState(pos, t) ==
    [InitializeGameState(LearnerConfig) EXCEPT !.turn = t, !.player_positions[0] = pos]

\* value tables an agent of LearnerConfig can hold (values in hundredths)
TableSamples ==
    LET key == GetStateKey(LearnerConfig, SampleState(<<0, 0>>, 0), 0)
    IN { <<>>,
         << [state |-> key, action |-> <<"move", "right">>, value |-> <<99, 1>>],
            [state |-> key, action |-> <<"stay">>, value |-> <<5, 1>>] >>,
         << [state |-> key, action |-> <<"move", "right">>, value |-> <<0 - 50, 1>>],
            [state |-> key, action |-> <<"stay">>, value |-> <<0 - 1, 1>>] >> }

\* epsilon as constructed by default and by the application
EpsilonSamples == {<<1, 5>>, <<3, 10>>}

TrainedLearners ==
    {[NewLearner(0) EXCEPT !.q_table = t, !.epsilon = e] :
        t \in TableSamples, e \in EpsilonSamples}

\* the calls choose_action(game_state, training) explored
ChooseCalls ==
    {[op |-> "choose_action", cfg |-> LearnerConfig, state |-> st,
      training |-> training, explored |-> FALSE, action |-> "none"] :
        st \in SampleStates, training \in BOOLEAN}

\* step rewards in hundredths: nothing, a step towards the goal, a plain stay
RewardSamples == {0, 99, 0 - 1}

\* the calls update_q_value(state, action, reward, next_state, done) explored
UpdateCalls ==
    UNION {{[op |-> "update_q_value", cfg |-> LearnerConfig, state |-> st,
             action |-> action, reward |-> reward, next_state |-> next_st,
             done |-> done] :
               action \in Range(GetValidActions(LearnerConfig, st, 0)),
               reward \in RewardSamples, next_st \in SampleStates, done \in BOOLEAN} :
           st \in SampleStates}

\* the calls decay_epsilon(decay_rate, min_epsilon) explored: the default rate
\* 0.995 and floor 0.01 among other numbers, which the code accepts as well
DecayCalls ==
    {[op |-> "decay_epsilon", epsilon0 |-> e, decay_rate |-> r, min_epsilon |-> m,
      calls |-> 0] :
        e \in {<<1, 5>>, <<1, 1>>, <<0 - 4, 1>>},
        r \in {<<199, 200>>, <<1, 2>>, <<2, 1>>, <<0 - 1, 1>>},
        m \in {<<1, 100>>, <<1, 2>>, <<0 - 1, 1>>}}

\* a table with values for the goal cell of LearnerConfig's board
GoalTable ==
    LET key == GetStateKey(LearnerConfig, SampleState(<<1, 1>>, 0), 0)
    IN << [state |-> key, action |-> <<"stay">>, value |-> <<50, 1>>],
          [state |-> key, action |-> <<"move", "down">>, value |-> <<20, 1>>] >>

\* the training steps of simulate_game explored: the agent, player 0, has
\* chosen `action` in `state`; passed is the state object handed to
\* update_q_value
StepCalls ==
    UNION {{[op |-> "train_step", cfg |-> LearnerConfig, state |-> st, action |-> action,
             passed |-> st, next_state |-> st, reward |-> 0, done |-> FALSE] :
               action \in Range(GetValidActions(LearnerConfig, st, 0))} :
           st \in SampleStates}

CallInit ==
    /\ AnalyzerIdle
    /\ SimIdle
    /\ pc = "call"
    /\ fresh = NewLearner(0)
    /\ file = MissingFile
    /\ updates = 0
    /\ \/ /\ \E cfg \in ProbeConfigs : probe \in ExecuteCalls(cfg)
          /\ learner = NewLearner(0)
       \/ /\ probe \in ValidCalls
          /\ learner = NewLearner(0)
       \/ /\ probe \in ChooseCalls
          /\ learner \in TrainedLearners
       \/ /\ probe \in UpdateCalls
          /\ learner \in TrainedLearners
       \/ /\ probe \in DecayCalls
          /\ learner = [NewLearner(0) EXCEPT !.epsilon = probe.epsilon0]
       \/ /\ probe \in StepCalls
          /\ \E t \in TableSamples \cup {GoalTable} :
                learner = [NewLearner(0) EXCEPT !.q_table = t]
    /\ before = learner

\* _execute_action: state_after is the object passed in as it is after the call
Execute ==
    /\ pc = "call"
    /\ probe.op = "execute"
    /\ LET ex == ExecuteAction(probe.cfg, probe.state, probe.player, probe.action,
                               probe.dice, probe.chance)
       IN probe' = [probe EXCEPT !.state_after = ex.state,
                                 !.next_state = ex.next_state,
                                 !.reward = ex.reward]
    /\ pc' = "returned"
    /\ UNCHANGED <<learner, fresh, file, before, updates, simVars, analyzerVars>>

\* get_valid_actions
GetValid ==
    /\ pc = "call"
    /\ probe.op = "get_valid_actions"
    /\ probe' = [probe EXCEPT
                    !.actions = GetValidActions(probe.cfg, probe.state, learner.player_id)]
    /\ pc' = "returned"
    /\ UNCHANGED <<learner, fresh, file, before, updates, simVars, analyzerVars>>

\* random.random() < epsilon: the outcomes that epsilon allows
ExploreOutcomes(epsilon) ==
    {b \in BOOLEAN : /\ b => FracLess(<<0, 1>>, epsilon)
                     /\ ~b => FracLeq(epsilon, <<1, 1>>)}

\* choose_action exploring whatever `training` says
ChooseActionOfExploresAlways(agent, cfg, st, training, explore) ==
    LET valid_actions == GetValidActions(cfg, st, agent.player_id)
        state_key == GetStateKey(cfg, st, agent.player_id)
        q_values == [i \in DOMAIN valid_actions |->
                        GetQValue(agent.q_table, state_key, ActionText(valid_actions[i]))]
        max_q == FracMaxOf(q_values, <<0, 1>>)
    IN IF valid_actions = <<>> THEN {"stay"}
       ELSE IF explore THEN Range(valid_actions)
       ELSE {valid_actions[i] : i \in {j \in DOMAIN valid_actions : q_values[j] = max_q}}

\* choose_action: the actions it can return; explore is random.random() < epsilon
ChooseActionOf(agent, cfg, st, training, explore) ==
    LET valid_actions == GetValidActions(cfg, st, agent.player_id)
        state_key == GetStateKey(cfg, st, agent.player_id)
        q_values == [i \in DOMAIN valid_actions |->
                        GetQValue(agent.q_table, state_key, ActionText(valid_actions[i]))]
        max_q == FracMaxOf(q_values, <<0, 1>>)
    IN IF valid_actions = <<>> THEN {"stay"}
       ELSE IF training /\ explore THEN Range(valid_actions)
       ELSE {valid_actions[i] : i \in {j \in DOMAIN valid_actions : q_values[j] = max_q}}

\* choose_action
Choose ==
    /\ pc = "call"
    /\ probe.op = "choose_action"
    /\ \E explore \in ExploreOutcomes(learner.epsilon) :
          \E action \in ChooseActionOf(learner, probe.cfg, probe.state,
                                         probe.training, explore) :
              probe' = [probe EXCEPT !.action = action,
                                     !.explored = probe.training /\ explore]
    /\ pc' = "returned"
    /\ UNCHANGED <<learner, fresh, file, before, updates, simVars, analyzerVars>>

\* update_q_value, called again and again with the same arguments
Update ==
    /\ pc \in {"call", "returned"}
    /\ probe.op = "update_q_value"
    /\ updates < MaxUpdates
    /\ learner' = UpdateQValue(learner, probe.cfg, probe.state, probe.action,
                                probe.reward, probe.next_state, probe.done)
    /\ updates' = updates + 1
    /\ pc' = "returned"
    /\ UNCHANGED <<probe, fresh, file, before, simVars, analyzerVars>>

\* decay_epsilon(decay_rate, min_epsilon), called again and again
Decay ==
    /\ pc \in {"call", "returned"}
    /\ probe.op = "decay_epsilon"
    /\ probe.calls < MaxDecays
    /\ learner' = [learner EXCEPT
                      !.epsilon = DecayEpsilonBy(@, probe.decay_rate, probe.min_epsilon)]
    /\ probe' = [probe EXCEPT !.calls = @ + 1]
    /\ pc' = "returned"
    /\ UNCHANGED <<fresh, file, before, updates, simVars, analyzerVars>>

\* lines 103-114 of simulate_game with training: the executor, the win check
\* and update_q_value(state, action, reward, next_state, done)
TrainStep ==
    /\ pc = "call"
    /\ probe.op = "train_step"
    /\ LET o == StepOutcome(probe.cfg, probe.state, learner.player_id, probe.action,
                            0, FALSE)
       IN /\ learner' = UpdateQValue(learner, probe.cfg, o.state, probe.action,
                                     o.reward, o.next_state, o.done)
          /\ probe' = [probe EXCEPT !.passed = o.state, !.next_state = o.next_state,
                                    !.reward = o.reward, !.done = o.done]
    /\ pc' = "returned"
    /\ UNCHANGED <<fresh, file, before, updates, simVars, analyzerVars>>

CallNext == Execute \/ GetValid \/ Choose \/ Update \/ Decay \/ TrainStep

CallSpec == CallInit /\ [][CallNext]_vars

(***************************************************************************)
(* Properties of simulate_game.                                            *)
(***************************************************************************)
Cfg == scenario.cfg

Finished == pc = "done" /\ Len(results) = 1

Ascending(k) == [i \in 1 .. k |-> i - 1]

KnownWinTypes ==
    {"race_finish", "resource_collection", "territory_control", "position_or_elimination"}

\* the racing scenario: track length 30, base movement 2, no dice modifier
RacingScenario ==
    /\ Cfg.genre = "racing" /\ Cfg.win_type = "race_finish"
    /\ Cfg.length = 30 /\ Cfg.base_movement = 2 /\ ~Cfg.dice_modifier

\* the resource scenario: target 30, collection rate 3
ResourceScenario ==
    /\ Cfg.genre = "resource_management" /\ Cfg.win_type = "resource_collection"
    /\ Cfg.target_resources = 30 /\ Cfg.collection_rate = 3

RECURSIVE SumOver(_, _)
SumOver(f, S) ==
    IF S = {} THEN 0 ELSE LET x == CHOOSE y \in S : TRUE IN f[x] + SumOver(f, S \ {x})

\* C1: every result of simulate_game has a turn count of at most the turn
\* ceiling and a winner that is None or a player id in [0, num_players).
C1_TurnsAndWinner ==
    \A i \in DOMAIN results :
        /\ results[i].turns <= max_turns
        /\ results[i].winner = NoWinner \/ results[i].winner \in Players(Cfg)

C1_Witness ==
    Finished /\ Cfg.num_players = 2 /\ results[1].winner = 1 /\ results[1].turns > 0

\* C2: every call of simulate_game eventually returns a result, also when no
\* player ever satisfies the win condition.
C2_Terminates == <>Finished

C2_Witness ==
    Finished /\ results[1].winner = NoWinner /\ turn = max_turns

\* C3: within a turn the players act once each in ascending id order, and
\* once a step marks the state terminal no further player acts: control is
\* past both loops and the winner is the last player that acted.
C3_TurnOrder ==
    /\ pc = "player_loop" => acted = Ascending(player)
    /\ (pc = "turn_loop" /\ turn > 0) => acted = Ascending(Cfg.num_players)
    /\ state.game_over =>
          /\ pc \in {"record", "done"}
          /\ acted = Ascending(state.winner + 1)
    /\ (pc \in {"record", "done"} /\ ~state.game_over) =>
          /\ acted = Ascending(Cfg.num_players)
          /\ turn = max_turns

C3_Witness ==
    Finished /\ Cfg.num_players = 2 /\ state.game_over /\ state.winner = 0
    /\ acted = <<0>> /\ state.turn > 0

\* C4: in the resource scenario with every choice a collect, the game ends
\* with a winner and the result reports a turn count of exactly 10.
C4_WinsAtTurn10 ==
    (Finished /\ ResourceScenario /\ script.collect) =>
        /\ results[1].winner # NoWinner
        /\ results[1].turns = 10

\* C5: in the racing scenario with every choice an advance, the game ends
\* with a winner and a reported turn count of at most 15.
C5_RaceWithin15 ==
    (Finished /\ RacingScenario /\ script.advance) =>
        /\ results[1].winner # NoWinner
        /\ results[1].turns <= 15

C5_Witness ==
    Finished /\ RacingScenario /\ script.advance /\ Cfg.num_players = 2
    /\ results[1].winner = 0 /\ state.player_positions[0] = 29

\* C6: in the racing scenario with every choice an advance, the step rewards
\* of the whole game hold the finish bonus of 100 exactly once: they sum to
\* the progress rewards minus the per-turn costs plus one bonus.
C6_FinishBonusOnce ==
    (Finished /\ RacingScenario /\ script.advance /\ scenario.training) =>
        SumOver([p \in DOMAIN agents |-> agents[p].total_reward], DOMAIN agents)
            = (state.turn * Cfg.num_players + Len(acted))
                  * (Cfg.base_movement * 50 - TurnCost)
              + WinBonus

\* C10: with a win type that is none of the four known ones the win
\* condition holds for no player in any state, and no winner is recorded.
C10_UnknownTypeNeverWins ==
    Cfg.win_type \notin KnownWinTypes =>
        /\ \A p \in Players(Cfg) : ~CheckWinCondition(Cfg, state, p)
        /\ state.winner = NoWinner

\* C12: in a resource_management game played by QLearningPlayer agents,
\* whenever a player is about to choose, collect is among its valid actions
\* and so among the actions choose_action can return.
C12_CollectOffered ==
    (pc = "player_loop" /\ Cfg.genre = "resource_management"
        /\ scenario.agent = "qlearning") =>
        /\ "collect" \in Range(GetValidActions(Cfg, state, player))
        /\ "collect" \in ChooseAction(scenario, state, player)

\* C14: in every state of simulate_game every player's position is within
\* the board: both coordinates in [0, size-1] in the grid genres, the scalar
\* position in [0, track_length-1] in racing.
C14_PositionsInBounds ==
    \A p \in Players(Cfg) :
        LET pos == state.player_positions[p]
        IN IF Cfg.genre = "racing"
           THEN pos \in 0 .. Cfg.length - 1
           ELSE pos[1] \in 0 .. Cfg.size - 1 /\ pos[2] \in 0 .. Cfg.size - 1

C14_Witness ==
    /\ Cfg.genre = "resource_management" /\ scenario.agent = "scripted"
    /\ Cfg.num_players = 1
    /\ state.turn >= 2
    /\ state.player_positions[0] = <<Cfg.size - 1, Cfg.size - 1>>

\* C15: the state initialize_game_state returns holds, for every player i of
\* a non-racing genre, the corner corners[i mod 4] of the size x size board
\* with corners = (0,0), (0,size-1), (size-1,0), (size-1,size-1), and for
\* every player of racing the position 0, whatever pieces_per_player is.
C15_StartingCorners ==
    (pc = "turn_loop" /\ turn = 0) =>
        \A i \in Players(Cfg) :
            state.player_positions[i] =
                IF Cfg.genre = "racing" THEN 0
                ELSE CASE i % 4 = 0 -> <<0, 0>>
                       [] i % 4 = 1 -> <<0, Cfg.size - 1>>
                       [] i % 4 = 2 -> <<Cfg.size - 1, 0>>
                       [] OTHER -> <<Cfg.size - 1, Cfg.size - 1>>

\* C19: when simulate_game runs with training = False, no agent's value
\* table, total_reward or epsilon changes during the game; games_played and
\* wins change only at the end, where each agent records the game.
C19_EvaluationFrame ==
    ~scenario.training =>
        \A p \in DOMAIN agents :
            /\ agents[p].q_writes = 0
            /\ agents[p].total_reward = 0
            /\ agents[p].epsilon = NewAgent.epsilon
            /\ pc # "done" => agents[p].games_played = 0 /\ agents[p].wins = 0
            /\ pc = "done" =>
                  /\ agents[p].games_played = 1
                  /\ agents[p].wins = IF state.winner = p THEN 1 ELSE 0

C19_Witness ==
    /\ Finished /\ ~scenario.training /\ scenario.agent = "qlearning"
    /\ Cfg.num_players = 2 /\ state.winner = 1 /\ state.turn > 0
    /\ agents[1].wins = 1 /\ agents[0].wins = 0 /\ agents[0].games_played = 1

(***************************************************************************)
(* Properties of the methods called directly.                              *)
(***************************************************************************)
Returned(op) == pc = "returned" /\ probe.op = op

\* C11: _execute_action leaves the state object passed in unchanged: after
\* the call it still holds the acting player's position, resources and
\* score from before the action.
C11_InputStateUnchanged ==
    Returned("execute") =>
        Held(probe.state_after, probe.player) = Held(probe.state, probe.player)

\* C13: for a grid-genre state with the player on a cell of the size x size
\* board, get_valid_actions returns a non-empty list that contains stay and
\* contains each move exactly when no board edge blocks it.
C13_GridValidActions ==
    Returned("get_valid_actions") =>
        LET pos == probe.state.player_positions[learner.player_id]
            size == probe.cfg.size
            valid == Range(probe.actions)
        IN /\ probe.actions # <<>>
           /\ "stay" \in valid
           /\ "move_left" \in valid <=> pos[1] > 0
           /\ "move_right" \in valid <=> pos[1] < size - 1
           /\ "move_up" \in valid <=> pos[2] > 0
           /\ "move_down" \in valid <=> pos[2] < size - 1

C13_Witness ==
    /\ Returned("get_valid_actions")
    /\ probe.cfg.size = 3
    /\ probe.state.player_positions[0] = <<2, 1>>
    /\ Range(probe.actions) = {"move_left", "move_up", "move_down", "stay"}

\* the table the agent held before the calls stores the call's reward for the
\* call's (state key, action)
StoresReward ==
    LET i == IndexOf(before.q_table,
                     GetStateKey(probe.cfg, probe.state, before.player_id),
                     ActionText(probe.action))
    IN i # 0 /\ before.q_table[i].value = <<probe.reward, 1>>

\* C16: when the transition is terminal and the table already stores the
\* reward for (state key, action), update_q_value applied any number of
\* times leaves that entry, and the whole table, as it was.
C16_TerminalFixedPoint ==
    (probe.op = "update_q_value" /\ probe.done /\ StoresReward) =>
        /\ learner.q_table = before.q_table
        /\ GetQValue(learner.q_table,
                     GetStateKey(probe.cfg, probe.state, learner.player_id),
                     ActionText(probe.action)) = <<probe.reward, 1>>

C16_Witness ==
    /\ Returned("update_q_value") /\ probe.done /\ StoresReward
    /\ updates >= 2
    /\ probe.reward = 99
    /\ probe.next_state = probe.state

RECURSIVE FracPow(_, _)
\* r to the power k
FracPow(r, k) == IF k = 0 THEN <<1, 1>> ELSE FracMul(r, FracPow(r, k - 1))

\* max(m, epsilon0 * r^k) for the decay calls made so far
ClosedForm ==
    FracMax(probe.min_epsilon,
            FracMul(probe.epsilon0, FracPow(probe.decay_rate, probe.calls)))

\* C17: after k calls of decay_epsilon(r, m) from epsilon0 the agent's
\* epsilon is max(m, epsilon0 * r^k), for every k >= 0, epsilon0, r and m.
C17_DecayClosedForm ==
    probe.op = "decay_epsilon" => learner.epsilon = ClosedForm

\* C17 as amended: the same for a rate r >= 0 and either an epsilon0 that is
\* not below the floor, or at least one call with r <= 1 and a floor m >= 0.
C17_DecayClosedFormForDecayRates ==
    (/\ probe.op = "decay_epsilon"
     /\ FracLeq(<<0, 1>>, probe.decay_rate)
     /\ \/ FracLeq(probe.min_epsilon, probe.epsilon0)
        \/ /\ probe.calls >= 1
           /\ FracLeq(probe.decay_rate, <<1, 1>>)
           /\ FracLeq(<<0, 1>>, probe.min_epsilon)) =>
        learner.epsilon = ClosedForm

C17_Witness ==
    /\ Returned("decay_epsilon")
    /\ probe.calls = 2
    /\ probe.epsilon0 = <<1, 1>> /\ probe.decay_rate = <<1, 2>>
    /\ probe.min_epsilon = <<1, 2>>
    /\ learner.epsilon = <<1, 2>>

\* the agent's table value of an action in the probed state, unknown pairs 0
ValueOf(action) ==
    GetQValue(learner.q_table, GetStateKey(probe.cfg, probe.state, learner.player_id),
              ActionText(action))

\* C18: choose_action returns a member of get_valid_actions for the state,
\* and in evaluation (training = False) no valid action has a larger table
\* value for the state's key than the action returned.
C18_ChoosesValidAndGreedy ==
    Returned("choose_action") =>
        LET valid == Range(GetValidActions(probe.cfg, probe.state, learner.player_id))
        IN /\ probe.action \in valid
           /\ ~probe.training =>
                 \A a \in valid : FracLeq(ValueOf(a), ValueOf(probe.action))

C18_Witness ==
    /\ Returned("choose_action") /\ ~probe.training
    /\ probe.state = SampleState(<<0, 0>>, 0)
    /\ probe.action = "move_right"
    /\ ValueOf("move_right") = <<99, 1>> /\ ValueOf("stay") = <<5, 1>>
    /\ ValueOf("move_down") = <<0, 1>>

\* the entry of a table is the one for (key, action) or is as it was before
OnlyEntryWritten(key, action) ==
    /\ IndexOf(learner.q_table, key, action) # 0
    /\ \A i \in DOMAIN learner.q_table :
          LET e == learner.q_table[i]
          IN \/ e.state = key /\ e.action = action
             \/ /\ IndexOf(before.q_table, e.state, e.action) # 0
                /\ GetQValue(before.q_table, e.state, e.action) = e.value

\* C23: in a training step the entry written to the acting agent's table is
\* the one for (key of the state before the action, action), also when the
\* action moved the player.
C23_WritesOldStateKey ==
    Returned("train_step") =>
        OnlyEntryWritten(GetStateKey(probe.cfg, probe.state, learner.player_id),
                         ActionText(probe.action))

\* the executor's outcome for the probed training step
Executed ==
    ExecuteAction(probe.cfg, probe.state, learner.player_id, probe.action, 0, FALSE)

\* C24: when the new state satisfies the acting player's win condition, the
\* step marks it terminal with the acting player as winner, adds the bonus
\* of 100 to the step's reward, and the value written is current + alpha *
\* (reward - current): the target is the reward, nothing is bootstrapped.
C24_WinningStep ==
    (Returned("train_step")
        /\ CheckWinCondition(probe.cfg, Executed.next_state, learner.player_id)) =>
        /\ probe.next_state.game_over
        /\ probe.next_state.winner = learner.player_id
        /\ probe.reward = Executed.reward + WinBonus
        /\ probe.done
        /\ LET key == GetStateKey(probe.cfg, probe.passed, learner.player_id)
               current_q == GetQValue(before.q_table, key, ActionText(probe.action))
           IN GetQValue(learner.q_table, key, ActionText(probe.action)) =
                 FracAdd(current_q,
                         FracMul(learner.learning_rate,
                                 FracSub(<<probe.reward, 1>>, current_q)))

C24_Witness ==
    /\ Returned("train_step")
    /\ probe.state = SampleState(<<1, 0>>, 0) /\ probe.action = "move_down"
    /\ before.q_table = GoalTable
    /\ probe.next_state.winner = 0 /\ probe.reward = 10099

\* C26: in a strategy game with win type position_or_elimination, the goal
\* at (size-1, size-1) and 2 to 4 players, no player starts on the goal, and
\* a recorded winner does not stand where it started.
C26_NoStartOnGoal ==
    (Cfg.genre = "strategy" /\ Cfg.win_type = "position_or_elimination"
        /\ GoalPosition(Cfg) = <<Cfg.size - 1, Cfg.size - 1>>
        /\ Cfg.num_players \in 2 .. 4) =>
        LET start == InitializeGameState(Cfg).player_positions
        IN /\ \A p \in Players(Cfg) : start[p] # GoalPosition(Cfg)
           /\ state.winner # NoWinner =>
                 state.player_positions[state.winner] # start[state.winner]

\* C27: the result of simulate_game agrees with the win condition on the
\* final state: a winner p satisfies the configured win condition there, and
\* with winner None the reported turn index is max_turns - 1 and no player
\* satisfies the win condition.
C27_ResultAgreesWithWinCondition ==
    Finished =>
        /\ results[1].winner # NoWinner =>
              CheckWinCondition(Cfg, state, results[1].winner)
        /\ results[1].winner = NoWinner =>
              /\ results[1].turns = max_turns - 1
              /\ \A p \in Players(Cfg) : ~CheckWinCondition(Cfg, state, p)

\* a racing game won by a player past the start, and a game that ran out
C27_Witness ==
    /\ Finished
    /\ \/ /\ RacingScenario /\ Cfg.num_players = 2 /\ results[1].winner = 0
          /\ state.player_positions[0] = Cfg.length - 1
       \/ /\ Cfg.win_type = "resource_collection" /\ results[1].winner = 1
          /\ state.player_resources[0] > 0

\* the points of simulate_game's loops that follow the point n = (state,
\* player about to act) of scenario sc: one per action choose_action may
\* return and per random outcome.  After game_over or the last turn nobody
\* is about to act (player = num_players) and nothing follows.
Successors(sc, n) ==
    IF n.player >= sc.cfg.num_players THEN {}
    ELSE IF n.player \in n.st.eliminated_players
    THEN {[st |-> n.st,
           player |-> IF n.player + 1 < sc.cfg.num_players THEN n.player + 1
                      ELSE sc.cfg.num_players]}
    ELSE UNION {{LET ns == StepOutcome(sc.cfg, n.st, n.player, action, dice, chance).next_state
                 IN IF ns.game_over THEN [st |-> ns, player |-> sc.cfg.num_players]
                    ELSE IF n.player + 1 < sc.cfg.num_players
                    THEN [st |-> ns, player |-> n.player + 1]
                    ELSE IF ns.turn + 1 < max_turns
                    THEN [st |-> [ns EXCEPT !.turn = @ + 1], player |-> 0]
                    ELSE [st |-> ns, player |-> sc.cfg.num_players] :
                    dice \in DiceOutcomes(sc.cfg), chance \in ChanceOutcomes(sc.cfg)} :
                action \in ChooseAction(sc, n.st, n.player)}

\* every point reachable from the points in frontier, given those seen
RECURSIVE Reachable(_, _, _)
Reachable(sc, seen, frontier) ==
    IF frontier = {} THEN seen
    ELSE LET next == UNION {Successors(sc, n) : n \in frontier}
         IN Reachable(sc, seen \cup next, next \ seen)

\* some execution of simulate_game for sc records a winner
Winnable(sc) ==
    LET start == [st |-> InitializeGameState(sc.cfg), player |-> 0]
    IN \E n \in Reachable(sc, {start}, {start}) : n.st.winner # NoWinner

\* C28: a resource_management game played by QLearningPlayer agents, with a
\* positive collection rate and a target that collecting reaches within the
\* turn ceiling, is winnable: some execution of simulate_game ends with a
\* player at the resource target recorded as winner.
C28_ResourceGameWinnable ==
    (pc = "turn_loop" /\ turn = 0
        /\ Cfg.genre = "resource_management" /\ Cfg.win_type = "resource_collection"
        /\ scenario.agent = "qlearning" /\ Cfg.num_players >= 1
        /\ Cfg.collection_rate > 0
        /\ Cfg.collection_rate * max_turns >= Cfg.target_resources) =>
        Winnable(scenario)

\* C29: in a resource_management game every player's score equals its
\* resource counter in every state, both are non-negative, and no step
\* decreases either.
C29_ScoreMirrorsResources ==
    [][Cfg.genre = "resource_management" =>
          \A p \in Players(Cfg) :
              /\ state.player_scores[p] = state.player_resources[p]
              /\ state.player_resources[p] >= 0
              /\ state'.player_scores[p] = state'.player_resources[p]
              /\ state'.player_resources[p] >= state.player_resources[p]
              /\ state'.player_scores[p] >= state.player_scores[p]]_vars

C29_Witness ==
    /\ Cfg.genre = "resource_management" /\ Cfg.num_players = 2
    /\ pc = "player_loop" /\ player = 1
    /\ state.player_resources = (0 :> 6 @@ 1 :> 3)
    /\ state.player_scores = (0 :> 6 @@ 1 :> 3)

\* C25: in the racing executor the progress part of the reward, the reward
\* without the finish bonus and the per-turn cost, is 0.5 times (new
\* position - old position) for every advance action, also when the position
\* is clamped to the track end.
C25_RewardIsDistanceAdvanced ==
    (Returned("execute") /\ probe.cfg.genre = "racing"
        /\ probe.action \in {"move_right", "move_down"}) =>
        LET old_pos == probe.state.player_positions[probe.player]
            new_pos == probe.next_state.player_positions[probe.player]
            finish == IF new_pos >= probe.cfg.length - 1 THEN FinishBonus ELSE 0
        IN probe.reward + TurnCost - finish = 50 * (new_pos - old_pos)

(***************************************************************************)
(* Properties of the analyzer and of the model file.                       *)
(***************************************************************************)
\* C7: analyze_game_results on an empty batch with num_players = N returns a
\* report with fairness score 0.0, the undetermined grade and a win
\* distribution of exactly one entry per player id in [0, N), each 0.
C7_EmptyBatchReport ==
    (pc = "analyzed" /\ batch = <<>>) =>
        /\ report.analysis.fairness_score = <<0, 1>>
        /\ report.analysis.balance_grade = "N/A"
        /\ DOMAIN report.analysis.win_distribution = 0 .. report.num_players - 1
        /\ \A i \in DOMAIN report.analysis.win_distribution :
              report.analysis.win_distribution[i] = <<0, 1>>

\* the fields of an agent that load_model must leave alone on a malformed source
SameAgent(a, b) ==
    /\ a.q_table = b.q_table
    /\ a.wins = b.wins
    /\ a.games_played = b.games_played
    /\ a.total_reward = b.total_reward
    /\ a.epsilon = b.epsilon

\* C8: load_model on a malformed source (missing file, invalid JSON, JSON
\* without q_table, a key that cannot be split) leaves the agent's q_table,
\* wins, games_played, total_reward and epsilon as they were before the call.
C8_MalformedLoadIsNoOp ==
    (pc = "loaded" /\ Malformed(file)) => SameAgent(learner, before)

\* the entries of a table as a set
Entries(q_table) == Range(q_table)

\* C9: save_model followed by load_model on a new agent reconstructs the
\* same set of (state key, action) entries with the same values, and the
\* same wins, games_played and total_reward.
C9_SaveLoadRoundTrip ==
    (pc = "loaded_fresh" /\ file = SaveModel(learner)) =>
        /\ Entries(fresh.q_table) = Entries(learner.q_table)
        /\ fresh.wins = learner.wins
        /\ fresh.games_played = learner.games_played
        /\ fresh.total_reward = learner.total_reward

\* C20: for a non-empty batch whose winners are player ids, the percentages
\* of the win distribution sum to 100 when some game had a winner and to 0
\* when none had; a player who won no game has percentage 0.
C20_WinDistributionSums ==
    (pc = "analyzed" /\ batch # <<>>) =>
        LET dist == report.analysis.win_distribution
        IN /\ DOMAIN dist = 0 .. report.num_players - 1
           /\ FracSum(dist, DOMAIN dist) =
                 IF \E k \in DOMAIN batch : batch[k].winner # NoWinner
                 THEN <<100, 1>> ELSE <<0, 1>>
           /\ \A i \in DOMAIN dist :
                 (\A k \in DOMAIN batch : batch[k].winner # i) => dist[i] = <<0, 1>>

C20_Witness ==
    /\ pc = "analyzed" /\ Len(batch) = 3 /\ report.num_players = 3
    /\ batch[1].winner = 0 /\ batch[2].winner = NoWinner /\ batch[3].winner = 0
    /\ report.analysis.win_distribution = [i \in 0 .. 2 |-> IF i = 0 THEN <<100, 1>>
                                                              ELSE <<0, 1>>]

\* the number of games of the batch that player i won
WinsOf(i) == Cardinality({k \in DOMAIN batch : batch[k].winner = i})

\* C21: the fairness score is exactly 100 whenever each of the N players won
\* the same positive number of the decided games.
C21_UniformIsFair ==
    (pc = "analyzed"
        /\ \E c \in 1 .. Len(batch) :
              \A i \in 0 .. report.num_players - 1 : WinsOf(i) = c) =>
        report.analysis.fairness_score = <<100, 1>>

C21_Witness ==
    /\ pc = "analyzed" /\ report.num_players = 3 /\ Len(batch) = 3
    /\ \A i \in 0 .. 2 : WinsOf(i) = 1
    /\ report.analysis.fairness_score = <<100, 1>>

\* the decided games of the batch were all won by one player
OneSided ==
    \E i \in 0 .. report.num_players - 1 :
        /\ WinsOf(i) >= 1
        /\ \A k \in DOMAIN batch : batch[k].winner \in {i, NoWinner}

\* C22: for N >= 2 players the normaliser (100/N)^2 of the fairness score
\* equals the variance of the win percentages when one player won every
\* decided game, and the fairness score of a batch with a decided game is 0
\* only at such a one-sided distribution.
C22_NormaliserIsOneSidedVariance ==
    (pc = "analyzed" /\ report.num_players >= 2
        /\ \E k \in DOMAIN batch : batch[k].winner # NoWinner) =>
        /\ OneSided =>
              Variance(report.analysis.win_distribution) = MaxVariance(report.num_players)
        /\ report.analysis.fairness_score = <<0, 1>> => OneSided

====
